---- MODULE Spec2Model ----
(***************************************************************************)
(* Buddy frame allocator of the kernel (src/src/memory/buddy.rs).          *)
(*                                                                         *)
(* The three zones are records; the metadata table of a zone (the array of *)
(* Frame structures at metadata_begin) is the field `frames`, indexed by   *)
(* frame identifier.  Free lists hold frame identifiers, NONE for an empty *)
(* bucket.  alloc and free hold the zone's mutex for their whole critical  *)
(* section, so each is one atomic action here.                             *)
(***************************************************************************)
EXTENDS Integers, Sequences, FiniteSets, Bags, TLC

\* ---------------------------------------------------------------- constants
MAX_ORDER == 17
ZONE_TYPE_MASK == 3
FLAG_ZONE_TYPE_USER == 0
FLAG_ZONE_TYPE_KERNEL == 1
FLAG_ZONE_TYPE_DMA == 2
FLAG_NOFAIL == 4
\* !(0 as FrameID), the largest u32; TLC's integers end at 2^31 - 1, which
\* stands for it here: like the original it is above every frame identifier
FRAME_STATE_USED == 2147483647
PAGE_SIZE == 4096
\* size_of::<Frame>(): the record is packed, two u32 links and a u8 order
FRAME_SIZE == 9
KERNEL_ZONE_LIMIT == 1073741824
\* the distance between a physical address and the kernel's virtual address
\* for it; the kernel's 3 GiB does not fit TLC's integers, and any multiple
\* of PAGE_SIZE yields the same layout
PROCESS_END == 1610612736

\* ---------------------------------------------------------------- bounds
\* largest page count of the kernel zone
MaxPages == 4
\* largest order a caller asks for
MaxAllocOrder == 2
\* largest first page of the kernel zone (begin = page * PAGE_SIZE)
MaxBeginPage == 1
\* largest order found in a metadata record that was never written
MaxJunkOrder == 1
\* largest number of alloc and free calls in one run
MaxCalls == 10
\* largest number of frames a round trip allocates
MaxRoundTrip == 3
\* number of callers that run concurrently
MaxThreads == 2
\* largest number of calls one concurrent caller makes
MaxThreadCalls == 3
\* largest page count of the kernel zone that concurrent callers share
MaxSharedPages == 3
\* number of calls one concurrent caller makes in the runs checked for
\* progress
MaxFairCalls == 2
\* largest page count of a zone that is initialised on its own
MaxInitPages == 9
\* largest page count of the range a memory map offers to the allocator
MaxMapPages == 460

\* Option::None of a free-list head, Err(()) of alloc
NONE == -1
ERR == -1

VARIABLES
    ZONES,      \* the zone registry: 0 user, 1 kernel, 2 DMA
    live,       \* caller side: the bag of allocations made and not yet freed
    calls,      \* caller side: the number of alloc and free calls made so far
    mutex,      \* the Mutex around each zone: the caller holding it, or FREE
    thread      \* each concurrent caller: its call, its place in it, its locals

vars == <<ZONES, live, calls, mutex, thread>>

\* ---------------------------------------------------------------- helpers
pow2(n) == 2 ^ n

\* the mask keeps one bit more than the class bits
BitAndLow_wide(flags, mask) == flags % (2 * (mask + 1))

\* flags & mask, for a mask of low bits (0b11)
BitAndLow(flags, mask) == flags % (mask + 1)

\* id ^ (1 << order) on unsigned integers
Xor1(id, order) ==
    IF (id \div pow2(order)) % 2 = 0 THEN id + pow2(order) ELSE id - pow2(order)

\* a debug_assert!: the model goes on as a release build does and records in
\* asserts_ok that a debug build would have halted here
dbg(z, cond) == IF cond THEN z ELSE [z EXCEPT !.asserts_ok = FALSE]

InTable(z, id) == id \in 0 .. (z.pages_count - 1)

\* the code dereferences a Frame pointer that lies outside the metadata
\* table: what it reads is not allocator state, the behaviour from here on is
\* undefined and the model follows it no further
wild(z) == [z EXCEPT !.ub = TRUE, !.asserts_ok = FALSE]

\* a write through the pointer Zone::get_frame(id) returns; outside the
\* table it lands outside the allocator's state
SetField(z, id, fld, val) ==
    IF InTable(z, id) THEN [z EXCEPT !.frames[id][fld] = val]
    ELSE [z EXCEPT !.asserts_ok = FALSE]

\* ---------------------------------------------------------------- Zone
get_pages_count(z) == z.pages_count

get_size(z) == z.pages_count * PAGE_SIZE

get_allocated_pages(z) == z.allocated_pages

get_frame_id_from_ptr(z, ptr) == (ptr - z.begin) \div PAGE_SIZE

\* ---------------------------------------------------------------- Frame
get_ptr(z, id) == z.begin + id * PAGE_SIZE

is_used(f) == (f.prev = FRAME_STATE_USED) \/ (f.next = FRAME_STATE_USED)

mark_used(z, id) ==
    SetField(SetField(z, id, "prev", FRAME_STATE_USED), id, "next", FRAME_STATE_USED)

mark_free(z, id) == SetField(SetField(z, id, "prev", 0), id, "next", 0)

get_buddy_id(z, id) == Xor1(id, z.frames[id].order)

\* the walk does not look at the prev of the first frame
RECURSIVE WalkList_nohead(_, _, _, _)
WalkList_nohead(z, frame, is_first, fuel) ==
    IF ~InTable(z, frame) THEN "wild"
    ELSE LET f == z.frames[frame] IN
         IF is_used(f) THEN "false"
         ELSE IF f.order > MAX_ORDER THEN "false"
         ELSE IF f.next = frame THEN "true"
         ELSE IF fuel = 0 THEN "hang"
         ELSE WalkList_nohead(z, f.next, FALSE, fuel - 1)
\* the walk of one bucket in check_free_list: "true", "false", or "hang" for
\* a walk that never ends, "wild" for a walk that leaves the table
RECURSIVE WalkList(_, _, _, _)
WalkList(z, frame, is_first, fuel) ==
    IF ~InTable(z, frame) THEN "wild"
    ELSE LET f == z.frames[frame] IN
         IF is_used(f) THEN "false"
         ELSE IF f.order > MAX_ORDER THEN "false"
         ELSE IF is_first /\ f.prev # frame THEN "false"
         ELSE IF f.next = frame THEN "true"
         ELSE IF fuel = 0 THEN "hang"
         ELSE WalkList(z, f.next, FALSE, fuel - 1)

check_free_list(z) ==
    \A o \in 0 .. MAX_ORDER :
        z.free_list[o] # NONE => WalkList(z, z.free_list[o], TRUE, z.pages_count) = "true"

\* how the loops of check_free_list end: at the first bucket, in the order
\* of the buckets, whose walk does not end with "true"
check_outcome(z) ==
    LET bad == {o \in 0 .. MAX_ORDER :
                    z.free_list[o] # NONE
                    /\ WalkList(z, z.free_list[o], TRUE, z.pages_count) # "true"}
    IN IF bad = {} THEN "true"
       ELSE WalkList(z, z.free_list[CHOOSE o \in bad : \A k \in bad : o <= k],
                     TRUE, z.pages_count)

\* debug_assert!(zone.check_free_list()): in a debug build that has not
\* halted yet, a walk that never ends keeps the call from returning, which
\* hangs records; the model goes on as a release build does
checked(z) ==
    IF z.asserts_ok /\ check_outcome(z) = "hang"
    THEN [z EXCEPT !.hangs = TRUE, !.asserts_ok = FALSE]
    ELSE dbg(z, check_free_list(z))

\* link leaves the prev of the former head as it was
link_body_keep(z, id) ==
    LET order == z.frames[id].order
        head == z.free_list[order]
        z1 == SetField(z, id, "prev", id)
        z2 == IF head # NONE
              THEN IF InTable(z1, head)
                   THEN SetField(dbg(z1, ~is_used(z1.frames[head])), id, "next", head)
                   ELSE wild(z1)
              ELSE SetField(z1, id, "next", id)
    IN [z2 EXCEPT !.free_list[order] = id]
\* the writes of link, between its assertions
link_body(z, id) ==
    LET order == z.frames[id].order
        head == z.free_list[order]
        z1 == SetField(z, id, "prev", id)
        z2 == IF head # NONE
              THEN IF InTable(z1, head)
                   THEN SetField(SetField(dbg(z1, ~is_used(z1.frames[head])), head, "prev", id),
                                 id, "next", head)
                   ELSE wild(z1)
              ELSE SetField(z1, id, "next", id)
    IN [z2 EXCEPT !.free_list[order] = id]

link(z, id) ==
    checked(link_body(checked(dbg(z, ~is_used(z.frames[id]))), id))

\* the frame before the last one keeps its next when the last one leaves
unlink_body_stale(z, id) ==
    LET f == z.frames[id]
        has_prev == f.prev # id
        has_next == f.next # id
        z1 == IF has_prev
              THEN SetField(z, f.prev, "next", f.next)
              ELSE [z EXCEPT !.free_list[f.order] = IF has_next THEN f.next ELSE NONE]
    IN IF has_next
       THEN SetField(z1, f.next, "prev", IF has_prev THEN f.prev ELSE f.next)
       ELSE z1
\* the writes of unlink, between its assertions
unlink_body(z, id) ==
    LET f == z.frames[id]
        has_prev == f.prev # id
        has_next == f.next # id
        z1 == IF has_prev
              THEN SetField(z, f.prev, "next", IF has_next THEN f.next ELSE f.prev)
              ELSE [z EXCEPT !.free_list[f.order] = IF has_next THEN f.next ELSE NONE]
    IN IF has_next
       THEN SetField(z1, f.next, "prev", IF has_prev THEN f.prev ELSE f.next)
       ELSE z1

unlink(z, id) ==
    checked(unlink_body(checked(dbg(z, ~is_used(z.frames[id]))), id))

\* buddy_frame.order = self.order
copy_order(z, buddy, id) == [z EXCEPT !.frames[buddy].order = z.frames[id].order]

RECURSIVE split_loop(_, _, _)
split_loop(z, id, order) ==
    IF z.frames[id].order > order
    THEN LET z1 == [z EXCEPT !.frames[id].order = @ - 1]
             buddy == get_buddy_id(z1, id)
         IN IF buddy >= get_pages_count(z1) THEN z1
            ELSE split_loop(
                     link(copy_order(unlink(dbg(z1, ~is_used(z1.frames[buddy])), buddy),
                                     buddy, id),
                          buddy),
                     id, order)
    ELSE z

\* the number of times the body of split's loop runs
RECURSIVE split_count(_, _, _)
split_count(z, id, order) ==
    IF z.frames[id].order > order
    THEN LET z1 == [z EXCEPT !.frames[id].order = @ - 1]
             buddy == get_buddy_id(z1, id)
         IN IF buddy >= get_pages_count(z1) THEN 1
            ELSE 1 + split_count(
                     link(copy_order(unlink(z1, buddy), buddy, id), buddy), id, order)
    ELSE 0

split(z, id, order) ==
    split_loop(unlink(dbg(z, ~is_used(z.frames[id]) /\ z.frames[id].order >= order), id),
               id, order)

RECURSIVE coalesce_loop(_, _)
coalesce_loop(z, id) ==
    IF z.frames[id].order < MAX_ORDER
    THEN LET buddy == get_buddy_id(z, id)
         IN IF buddy >= get_pages_count(z) THEN z
            ELSE IF z.frames[buddy].order # z.frames[id].order \/ is_used(z.frames[buddy])
                 THEN z
                 ELSE coalesce_loop([unlink(z, buddy) EXCEPT !.frames[id].order = @ + 1], id)
    ELSE z

\* the number of buddies coalesce's loop merges
RECURSIVE coalesce_count(_, _)
coalesce_count(z, id) ==
    IF z.frames[id].order < MAX_ORDER
    THEN LET buddy == get_buddy_id(z, id)
         IN IF buddy >= get_pages_count(z) THEN 0
            ELSE IF z.frames[buddy].order # z.frames[id].order \/ is_used(z.frames[buddy])
                 THEN 0
                 ELSE 1 + coalesce_count([unlink(z, buddy) EXCEPT !.frames[id].order = @ + 1], id)
    ELSE 0

\* the merges of coalesce's loop, in the order it makes them: the zone
\* before each merge and the buddy it merges with
RECURSIVE merges(_, _)
merges(z, id) ==
    IF z.frames[id].order < MAX_ORDER
    THEN LET buddy == get_buddy_id(z, id)
         IN IF buddy >= get_pages_count(z) THEN <<>>
            ELSE IF z.frames[buddy].order # z.frames[id].order \/ is_used(z.frames[buddy])
                 THEN <<>>
                 ELSE <<[zone |-> z, buddy |-> buddy]>>
                      \o merges([unlink(z, buddy) EXCEPT !.frames[id].order = @ + 1], id)
    ELSE <<>>
coalesce(z, id) ==
    link(coalesce_loop(dbg(z, ~is_used(z.frames[id])), id), id)

\* the scan starts one bucket too high
get_available_frame_skip(z, order) ==
    LET S == {i \in (order + 1) .. MAX_ORDER : z.free_list[i] # NONE}
    IN IF S = {} THEN NONE
       ELSE z.free_list[CHOOSE i \in S : \A j \in S : i <= j]

\* the scan runs from the highest bucket down
get_available_frame_high(z, order) ==
    LET S == {i \in order .. MAX_ORDER : z.free_list[i] # NONE}
    IN IF S = {} THEN NONE
       ELSE z.free_list[CHOOSE i \in S : \A j \in S : i >= j]
get_available_frame(z, order) ==
    LET S == {i \in order .. MAX_ORDER : z.free_list[i] # NONE}
    IN IF S = {} THEN NONE
       ELSE z.free_list[CHOOSE i \in S : \A j \in S : i <= j]

RECURSIVE fill_loop(_, _, _)
fill_loop(z, frame, order) ==
    IF frame < z.pages_count
    THEN IF frame + pow2(order) > z.pages_count
         THEN IF order = 0 THEN z ELSE fill_loop(z, frame, order - 1)
         ELSE LET z1 == [mark_free(z, frame) EXCEPT !.frames[frame].order = order]
              IN fill_loop(link(z1, frame), frame + pow2(order), order)
    ELSE z

\* the fill starts at order 0 instead of MAX_ORDER
fill_free_list_small(z) == fill_loop(z, 0, 0)

fill_free_list(z) == fill_loop(z, 0, MAX_ORDER)

\* Zone::init on the zeroed Zone of the registry; `memory` is what the
\* metadata table's memory holds before the zone writes to it
ZoneInit(type_, metadata_begin, pages_count, begin, memory) ==
    fill_free_list([type_ |-> type_,
                    allocated_pages |-> 0,
                    metadata_begin |-> metadata_begin,
                    begin |-> begin,
                    pages_count |-> pages_count,
                    free_list |-> [o \in 0 .. MAX_ORDER |-> NONE],
                    frames |-> memory,
                    asserts_ok |-> TRUE,
                    hangs |-> FALSE,
                    ub |-> FALSE])

\* ---------------------------------------------------------------- facade
\* a class no zone has falls back to the kernel zone
get_suitable_zone_fallback(zs, type_) ==
    LET S == {i \in DOMAIN zs : zs[i].type_ = type_}
    IN IF S = {} THEN 1 ELSE CHOOSE i \in S : \A j \in S : i <= j

get_suitable_zone(zs, type_) ==
    LET S == {i \in DOMAIN zs : zs[i].type_ = type_}
    IN IF S = {} THEN NONE ELSE CHOOSE i \in S : \A j \in S : i <= j

\* the end of the range is taken for part of it
get_zone_for_pointer_incl(zs, ptr) ==
    LET S == {i \in DOMAIN zs : ptr >= zs[i].begin /\ ptr <= zs[i].begin + get_size(zs[i])}
    IN IF S = {} THEN NONE ELSE CHOOSE i \in S : \A j \in S : i <= j

get_zone_for_pointer(zs, ptr) ==
    LET S == {i \in DOMAIN zs : ptr >= zs[i].begin /\ ptr < zs[i].begin + get_size(zs[i])}
    IN IF S = {} THEN NONE ELSE CHOOSE i \in S : \A j \in S : i <= j

\* counting the pages moves the zone
add_pages_moved(z, n) == [z EXCEPT !.allocated_pages = @ + n, !.begin = @ + PAGE_SIZE]
\* the counter counts blocks, not pages
add_pages_one(z, n) == [z EXCEPT !.allocated_pages = @ + 1]

\* zone.allocated_pages += n
add_pages(z, n) == [z EXCEPT !.allocated_pages = @ + n]

\* zone.allocated_pages -= n on usize: a negative value stands for the
\* wrapped 2^32 + value, and a debug build halts on the overflow
sub_pages(z, n) == [dbg(z, z.allocated_pages >= n) EXCEPT !.allocated_pages = @ - n]

\* the two assertions on the address alloc returns
ptr_checked(z, ptr) ==
    dbg(z, ptr % PAGE_SIZE = 0 /\ ptr >= z.begin /\ ptr < z.begin + get_size(z))

\* the frame is taken: split, mark_used, the counter, the address
take(z, f, order) ==
    ptr_checked(add_pages(mark_used(split(z, f, order), f), pow2(order)), get_ptr(z, f))

\* alloc: the registry afterwards and the value returned
alloc(zs, order, flags) ==
    LET zi == get_suitable_zone(zs, BitAndLow(flags, ZONE_TYPE_MASK))
    IN IF zi = NONE THEN [zones |-> zs, res |-> ERR]
       ELSE LET zone == zs[zi]
                f == get_available_frame(zone, order)
            IN IF f = NONE THEN [zones |-> zs, res |-> ERR]
               ELSE IF ~InTable(zone, f)
                    THEN [zones |-> [zs EXCEPT ![zi] = wild(zone)], res |-> ERR]
               ELSE [zones |-> [zs EXCEPT ![zi] = take(zone, f, order)],
                     res |-> get_ptr(zone, f)]

\* free: the registry afterwards
free(zs, ptr, order) ==
    LET zi == get_zone_for_pointer(zs, ptr)
    IN IF zi = NONE THEN zs
       ELSE LET zone == zs[zi]
                frame_id == get_frame_id_from_ptr(zone, ptr)
            IN IF ~InTable(zone, frame_id) THEN [zs EXCEPT ![zi] = wild(zone)]
               ELSE [zs EXCEPT ![zi] =
                    sub_pages(coalesce(mark_free(dbg(zone, frame_id < get_pages_count(zone)),
                                                 frame_id),
                                       frame_id),
                              pow2(order))]

allocated_pages(zs) ==
    get_allocated_pages(zs[0]) + get_allocated_pages(zs[1]) + get_allocated_pages(zs[2])

\* ---------------------------------------------------------------- init
\* what a metadata record that was never written may hold
JunkRecords(n, id) ==
    {[prev |-> 0, next |-> 0, order |-> 0]}
    \cup {[prev |-> id, next |-> id, order |-> o] : o \in 0 .. MaxJunkOrder}

\* the user zone gets one page, at address 0
init_user_page(pages, beginpage, memory) ==
    [i \in 0 .. 2 |->
        IF i = 1 THEN ZoneInit(FLAG_ZONE_TYPE_KERNEL, 0, pages, beginpage * PAGE_SIZE, memory)
        ELSE IF i = 0
        THEN ZoneInit(FLAG_ZONE_TYPE_USER, 0, 1, 0,
                      [id \in 0 .. 0 |-> [prev |-> 0, next |-> 0, order |-> 0]])
        ELSE ZoneInit(FLAG_ZONE_TYPE_DMA, 0, 0, 0, <<>>)]
\* the third zone gets the class of the first
init_dma_as_user(pages, beginpage, memory) ==
    [i \in 0 .. 2 |->
        IF i = 1 THEN ZoneInit(FLAG_ZONE_TYPE_KERNEL, 0, pages, beginpage * PAGE_SIZE, memory)
        ELSE ZoneInit(FLAG_ZONE_TYPE_USER, 0, 0, 0, <<>>)]

init(pages, beginpage, memory) ==
    [i \in 0 .. 2 |->
        IF i = 1 THEN ZoneInit(FLAG_ZONE_TYPE_KERNEL, 0, pages, beginpage * PAGE_SIZE, memory)
        ELSE ZoneInit(IF i = 0 THEN FLAG_ZONE_TYPE_USER ELSE FLAG_ZONE_TYPE_DMA,
                      0, 0, 0, <<>>)]

\* ---- the layout init computes from the memory map
align(ptr, n) == ((ptr + n - 1) \div n) * n
down_align(ptr, n) == (ptr \div n) * n
kern_to_virt(ptr) == ptr + PROCESS_END
kern_to_phys(ptr) == ptr - PROCESS_END
min(a, b) == IF a < b THEN a ELSE b

\* the memory maps: the allocatable range starts and ends on a page and
\* available_memory is its size
MemoryMaps ==
    {[phys_alloc_begin |-> b * PAGE_SIZE,
      phys_alloc_end |-> (b + k) * PAGE_SIZE,
      available_memory |-> k * PAGE_SIZE] :
        b \in 0 .. MaxBeginPage, k \in 0 .. MaxMapPages}

metadata_begin_of(mmap_info) ==
    align(kern_to_virt(mmap_info.phys_alloc_begin), PAGE_SIZE)

frames_count_of(mmap_info) ==
    mmap_info.available_memory \div (PAGE_SIZE + FRAME_SIZE)

metadata_end_of(mmap_info) ==
    metadata_begin_of(mmap_info) + frames_count_of(mmap_info) * FRAME_SIZE

kernel_zone_begin_of(mmap_info) ==
    align(kern_to_phys(metadata_end_of(mmap_info)), PAGE_SIZE)

kernel_zone_end_of(mmap_info) ==
    down_align(min(KERNEL_ZONE_LIMIT, mmap_info.phys_alloc_end), PAGE_SIZE)

\* the locals of init at the call of Zone::init for the kernel zone
layout(mmap_info) ==
    [metadata_begin |-> metadata_begin_of(mmap_info),
     frames_count |-> frames_count_of(mmap_info),
     metadata_end |-> metadata_end_of(mmap_info),
     kernel_zone_begin |-> kernel_zone_begin_of(mmap_info),
     kernel_zone_end |-> kernel_zone_end_of(mmap_info),
     kernel_frames_count |->
        (kernel_zone_end_of(mmap_info) - kernel_zone_begin_of(mmap_info)) \div PAGE_SIZE]

\* the address of the record of frame id
get_frame(metadata_begin, id) == metadata_begin + id * FRAME_SIZE

Memories(n) ==
    {m \in [0 .. (n - 1) -> UNION {JunkRecords(n, id) : id \in 0 .. (n - 1)}] :
        \A id \in 0 .. (n - 1) : m[id] \in JunkRecords(n, id)}

Boot ==
    \E n \in 1 .. MaxPages, b \in 1 .. MaxBeginPage :
        \E m \in Memories(n) : ZONES = init(n, b, m)

\* no caller holds a Mutex
FREE == 0

Threads == 1 .. MaxThreads

\* a caller between calls
Idle == [pc |-> "idle", op |-> "none", order |-> 0, flags |-> 0, ptr |-> 0,
         i |-> 0, zone |-> NONE, frame |-> NONE, n |-> 0, ret |-> 0, made |-> 0]

Init ==
    /\ Boot
    /\ live = EmptyBag
    /\ calls = 0
    /\ mutex = [i \in 0 .. 2 |-> FREE]
    /\ thread = [p \in Threads |-> Idle]

\* ---------------------------------------------------------------- actions
Flags == 0 .. 7

UB(zs) == \E i \in DOMAIN zs : zs[i].ub

\* the registry after a call; a call that runs into undefined behaviour
\* leaves only the mark of it
After(zs) ==
    IF UB(zs) THEN [i \in DOMAIN ZONES |-> [ZONES[i] EXCEPT !.ub = zs[i].ub]] ELSE zs

\* a caller allocates
Alloc ==
    /\ ~UB(ZONES)
    /\ calls < MaxCalls
    /\ calls' = calls + 1
    /\ \E order \in 0 .. MaxAllocOrder, flags \in Flags :
        \E r \in {alloc(ZONES, order, flags)} :
            /\ ZONES' = After(r.zones)
            /\ live' = IF r.res = ERR \/ UB(r.zones) THEN live
                       ELSE live (+) SetToBag({[ptr |-> r.res, order |-> order]})
    /\ UNCHANGED <<mutex, thread>>

\* a caller frees one of its allocations, with the order it was allocated with
Free ==
    /\ ~UB(ZONES)
    /\ calls < MaxCalls
    /\ calls' = calls + 1
    /\ \E a \in BagToSet(live) :
        \E zs \in {free(ZONES, a.ptr, a.order)} :
            /\ ZONES' = After(zs)
            /\ live' = IF UB(zs) THEN live ELSE live (-) SetToBag({a})
    /\ UNCHANGED <<mutex, thread>>

Next == Alloc \/ Free

Spec == Init /\ [][Next]_vars

\* ---------------------------------------------------------------- linking alone
\* largest page count of the zone whose frames are linked and unlinked
MaxListPages == 4

\* the frames that following `next` from frame visits
RECURSIVE walk_from(_, _, _)
walk_from(z, frame, fuel) ==
    IF ~InTable(z, frame) THEN {}
    ELSE IF z.frames[frame].next = frame \/ fuel = 0 THEN {frame}
    ELSE {frame} \cup walk_from(z, z.frames[frame].next, fuel - 1)

walk(z, head) == walk_from(z, head, z.pages_count)
\* a kernel zone of n pages whose frames are all marked free and in no
\* bucket, frame id with order orders[id]; InitList gives the first frames
\* order 0 and the others order 1
blank(n, orders) ==
    [type_ |-> FLAG_ZONE_TYPE_KERNEL,
     allocated_pages |-> 0,
     metadata_begin |-> 0,
     begin |-> PAGE_SIZE,
     pages_count |-> n,
     free_list |-> [o \in 0 .. MAX_ORDER |-> NONE],
     frames |-> [id \in 0 .. (n - 1) |-> [prev |-> 0, next |-> 0, order |-> orders[id]]],
     asserts_ok |-> TRUE,
     hangs |-> FALSE,
     ub |-> FALSE]

InitList ==
    /\ \E n \in 1 .. MaxListPages : \E s \in 0 .. n :
        ZONES = [i \in 0 .. 2 |->
                    IF i = 1 THEN blank(n, [id \in 0 .. (n - 1) |-> IF id < s THEN 0 ELSE 1])
                    ELSE ZoneInit(IF i = 0 THEN FLAG_ZONE_TYPE_USER ELSE FLAG_ZONE_TYPE_DMA,
                                  0, 0, 0, <<>>)]
    /\ live = EmptyBag
    /\ calls = 0
    /\ mutex = [i \in 0 .. 2 |-> FREE]
    /\ thread = [p \in Threads |-> Idle]

\* the frames of z that some bucket lists
listed(z) == UNION {walk(z, z.free_list[k]) : k \in {o \in 0 .. MAX_ORDER : z.free_list[o] # NONE}}

\* a frame that is in no bucket is linked
LinkFrame ==
    /\ \E f \in (0 .. (ZONES[1].pages_count - 1)) \ listed(ZONES[1]) :
        \E z \in {link(ZONES[1], f)} : ZONES' = [ZONES EXCEPT ![1] = z]
    /\ UNCHANGED <<live, calls, mutex, thread>>

\* a frame that is in a bucket is unlinked
UnlinkFrame ==
    /\ \E f \in listed(ZONES[1]) :
        \E z \in {unlink(ZONES[1], f)} : ZONES' = [ZONES EXCEPT ![1] = z]
    /\ UNCHANGED <<live, calls, mutex, thread>>

NextList == LinkFrame \/ UnlinkFrame

SpecList == InitList /\ [][NextList]_vars

\* ---------------------------------------------------------------- concurrent callers
\* largest order a concurrent caller asks for
MaxSharedOrder == 1

\* MutexGuard::new(m): taken only when no caller holds the Mutex
can_lock(m, i) == m[i] = FREE

guard_new(m, i, p) == [m EXCEPT ![i] = p]

\* the guard of a lookup keeps the Mutex until the lookup returns
lookup_keep(m, i) == m

\* the guard of a zone lookup, or of allocated_pages, goes out of scope at
\* the end of the loop body
lookup_release(m, i) == [m EXCEPT ![i] = FREE]

\* the guard of alloc and free goes out of scope when the call returns
crit_release(m, i) == [m EXCEPT ![i] = FREE]

\* the registry with zone i replaced; a step that runs into undefined
\* behaviour leaves only the mark of it
Put(i, z) == After([ZONES EXCEPT ![i] = z])

\* thread p with some of its fields replaced
Goto(p, t) == thread' = [thread EXCEPT ![p] = t]

\* the caller after its call returned ret: the locals of the call are gone
Return(t, ret) == [Idle EXCEPT !.made = t.made, !.ret = ret]

\* a caller calls alloc(order, flags)
CallAlloc(p) ==
    /\ thread[p].pc = "idle"
    /\ thread[p].made < MaxThreadCalls
    /\ ~UB(ZONES)
    /\ \E order \in 0 .. MaxSharedOrder, flags \in {FLAG_ZONE_TYPE_KERNEL, FLAG_ZONE_TYPE_DMA} :
        Goto(p, [thread[p] EXCEPT !.pc = "lookup", !.op = "alloc", !.order = order,
                                  !.flags = flags, !.i = 0, !.ret = 0, !.made = @ + 1])
    /\ calls' = calls + 1
    /\ UNCHANGED <<ZONES, live, mutex>>

\* a caller calls free(ptr, order) on a live allocation, which from then on
\* is no longer the caller's
CallFree(p) ==
    /\ thread[p].pc = "idle"
    /\ thread[p].made < MaxThreadCalls
    /\ ~UB(ZONES)
    /\ \E a \in BagToSet(live) :
        /\ live' = live (-) SetToBag({a})
        /\ Goto(p, [thread[p] EXCEPT !.pc = "lookup", !.op = "free", !.order = a.order,
                                     !.ptr = a.ptr, !.i = 0, !.ret = 0, !.made = @ + 1])
    /\ calls' = calls + 1
    /\ UNCHANGED <<ZONES, mutex>>

\* a caller calls allocated_pages()
CallAllocatedPages(p) ==
    /\ thread[p].pc = "idle"
    /\ thread[p].made < MaxThreadCalls
    /\ ~UB(ZONES)
    /\ Goto(p, [thread[p] EXCEPT !.pc = "lookup", !.op = "pages", !.n = 0, !.i = 0,
                                 !.ret = 0, !.made = @ + 1])
    /\ calls' = calls + 1
    /\ UNCHANGED <<ZONES, live, mutex>>

\* the loop body of a lookup or of allocated_pages takes the Mutex of zone i
LookupLock(p) ==
    /\ thread[p].pc = "lookup"
    /\ can_lock(mutex, thread[p].i)
    /\ mutex' = guard_new(mutex, thread[p].i, p)
    /\ Goto(p, [thread[p] EXCEPT !.pc = "lookup_held"])
    /\ UNCHANGED <<ZONES, live, calls>>

\* what the loop body of the call's lookup finds in zone z
is_valid(t, z) ==
    IF t.op = "alloc" THEN z.type_ = BitAndLow(t.flags, ZONE_TYPE_MASK)
    ELSE t.ptr >= z.begin /\ t.ptr < z.begin + get_size(z)

\* the thread after the loop body on zone i of allocated_pages
after_pages(t, z) ==
    IF t.i = 2
    THEN Return(t, t.n + get_allocated_pages(z))
    ELSE [t EXCEPT !.pc = "lookup", !.n = @ + get_allocated_pages(z), !.i = @ + 1]

\* the thread after the loop body on zone i of a zone lookup: the zone is
\* found, or the next one is tried, or the call returns without a zone
after_lookup(t, z) ==
    IF is_valid(t, z) THEN [t EXCEPT !.pc = "lock", !.zone = t.i]
    ELSE IF t.i = 2 THEN Return(t, ERR)
    ELSE [t EXCEPT !.pc = "lookup", !.i = @ + 1]

\* the loop body reads the zone and its guard goes out of scope
LookupUnlock(p) ==
    /\ thread[p].pc = "lookup_held"
    /\ mutex' = lookup_release(mutex, thread[p].i)
    /\ Goto(p, IF thread[p].op = "pages" THEN after_pages(thread[p], ZONES[thread[p].i])
               ELSE after_lookup(thread[p], ZONES[thread[p].i]))
    /\ UNCHANGED <<ZONES, live, calls>>

\* alloc and free take the Mutex of the zone the lookup returned
Lock(p) ==
    /\ thread[p].pc = "lock"
    /\ can_lock(mutex, thread[p].zone)
    /\ mutex' = guard_new(mutex, thread[p].zone, p)
    /\ Goto(p, [thread[p] EXCEPT !.pc = "crit1"])
    /\ UNCHANGED <<ZONES, live, calls>>

\* alloc: get_available_frame
Scan(p) ==
    /\ thread[p].pc = "crit1"
    /\ thread[p].op = "alloc"
    /\ \E f \in {get_available_frame(ZONES[thread[p].zone], thread[p].order)} :
        IF f = NONE \/ UB(ZONES)
        THEN Goto(p, [thread[p] EXCEPT !.pc = "unlock", !.ret = ERR]) /\ UNCHANGED ZONES
        ELSE IF ~InTable(ZONES[thread[p].zone], f)
        THEN /\ ZONES' = Put(thread[p].zone, wild(ZONES[thread[p].zone]))
             /\ Goto(p, [thread[p] EXCEPT !.pc = "unlock", !.ret = ERR])
        ELSE Goto(p, [thread[p] EXCEPT !.pc = "crit2", !.frame = f]) /\ UNCHANGED ZONES
    /\ UNCHANGED <<live, calls, mutex>>

\* alloc: split
Split(p) ==
    /\ thread[p].pc = "crit2"
    /\ thread[p].op = "alloc"
    /\ \E zs \in {Put(thread[p].zone,
                       split(ZONES[thread[p].zone], thread[p].frame, thread[p].order))} :
        /\ ZONES' = zs
        /\ Goto(p, IF UB(zs) THEN [thread[p] EXCEPT !.pc = "unlock", !.ret = ERR]
                   ELSE [thread[p] EXCEPT !.pc = "crit3"])
    /\ UNCHANGED <<live, calls, mutex>>

\* alloc: mark_used, the counter and the address
Take(p) ==
    /\ thread[p].pc = "crit3"
    /\ thread[p].op = "alloc"
    /\ ZONES' = Put(thread[p].zone,
                    ptr_checked(add_pages(mark_used(ZONES[thread[p].zone], thread[p].frame),
                                          pow2(thread[p].order)),
                                get_ptr(ZONES[thread[p].zone], thread[p].frame)))
    /\ Goto(p, [thread[p] EXCEPT !.pc = "unlock",
                                 !.ret = get_ptr(ZONES[thread[p].zone], thread[p].frame)])
    /\ UNCHANGED <<live, calls, mutex>>

\* free: the frame of the address, mark_free
MarkFree(p) ==
    /\ thread[p].pc = "crit1"
    /\ thread[p].op = "free"
    /\ \E id \in {get_frame_id_from_ptr(ZONES[thread[p].zone], thread[p].ptr)} :
        IF UB(ZONES)
        THEN Goto(p, [thread[p] EXCEPT !.pc = "unlock"]) /\ UNCHANGED ZONES
        ELSE IF ~InTable(ZONES[thread[p].zone], id)
        THEN /\ ZONES' = Put(thread[p].zone, wild(ZONES[thread[p].zone]))
             /\ Goto(p, [thread[p] EXCEPT !.pc = "unlock"])
        ELSE /\ ZONES' = Put(thread[p].zone, mark_free(ZONES[thread[p].zone], id))
             /\ Goto(p, [thread[p] EXCEPT !.pc = "crit2", !.frame = id])
    /\ UNCHANGED <<live, calls, mutex>>

\* free: coalesce
Coalesce(p) ==
    /\ thread[p].pc = "crit2"
    /\ thread[p].op = "free"
    /\ \E zs \in {Put(thread[p].zone, coalesce(ZONES[thread[p].zone], thread[p].frame))} :
        /\ ZONES' = zs
        /\ Goto(p, IF UB(zs) THEN [thread[p] EXCEPT !.pc = "unlock"]
                   ELSE [thread[p] EXCEPT !.pc = "crit3"])
    /\ UNCHANGED <<live, calls, mutex>>

\* free: the counter
Uncount(p) ==
    /\ thread[p].pc = "crit3"
    /\ thread[p].op = "free"
    /\ ZONES' = Put(thread[p].zone, sub_pages(ZONES[thread[p].zone], pow2(thread[p].order)))
    /\ Goto(p, [thread[p] EXCEPT !.pc = "unlock"])
    /\ UNCHANGED <<live, calls, mutex>>

\* alloc and free return: the guard goes out of scope, and the caller of a
\* successful alloc has one more live allocation
Unlock(p) ==
    /\ thread[p].pc = "unlock"
    /\ mutex' = crit_release(mutex, thread[p].zone)
    /\ Goto(p, Return(thread[p], IF thread[p].op = "alloc" THEN thread[p].ret ELSE 0))
    /\ live' = IF thread[p].op = "alloc" /\ thread[p].ret # ERR
               THEN live (+) SetToBag({[ptr |-> thread[p].ret, order |-> thread[p].order]})
               ELSE live
    /\ UNCHANGED <<ZONES, calls>>

\* the steps of a call that is under way
Run(p) ==
    \/ LookupLock(p) \/ LookupUnlock(p) \/ Lock(p)
    \/ Scan(p) \/ Split(p) \/ Take(p)
    \/ MarkFree(p) \/ Coalesce(p) \/ Uncount(p)
    \/ Unlock(p)

BootShared ==
    \E n \in 1 .. MaxSharedPages, b \in 1 .. MaxBeginPage :
        \E m \in Memories(n) : ZONES = init(n, b, m)

InitShared ==
    /\ BootShared
    /\ live = EmptyBag
    /\ calls = 0
    /\ mutex = [i \in 0 .. 2 |-> FREE]
    /\ thread = [p \in Threads |-> Idle]

NextShared ==
    \E p \in Threads : CallAlloc(p) \/ CallFree(p) \/ CallAllocatedPages(p) \/ Run(p)

SpecShared == InitShared /\ [][NextShared]_vars

\* callers that have MaxFairCalls calls left to make
InitFair ==
    /\ BootShared
    /\ live = EmptyBag
    /\ calls = 0
    /\ mutex = [i \in 0 .. 2 |-> FREE]
    /\ thread = [p \in Threads |-> [Idle EXCEPT !.made = MaxThreadCalls - MaxFairCalls]]

\* caller p is in a call and its next step does not wait for a Mutex: the
\* states in which Run(p) is enabled
CanRun(p) ==
    /\ thread[p].pc # "idle"
    /\ thread[p].pc = "lookup" => can_lock(mutex, thread[p].i)
    /\ thread[p].pc = "lock" => can_lock(mutex, thread[p].zone)

\* weak fairness of Run(p), with its enabling condition written out
Fair(p) == []<>(~CanRun(p)) \/ []<><<Run(p)>>_vars

\* every caller that is in a call and can run does run
SpecSharedFair == InitFair /\ [][NextShared]_vars /\ \A p \in Threads : Fair(p)

\* ---------------------------------------------------------------- vocabulary
\* the frames that following `next` from the head of bucket k visits
RECURSIVE Walk(_, _, _)
Walk(z, frame, fuel) ==
    IF ~InTable(z, frame) THEN {frame}
    ELSE IF z.frames[frame].next = frame \/ fuel = 0 THEN {frame}
    ELSE {frame} \cup Walk(z, z.frames[frame].next, fuel - 1)

Bucket(z, k) == IF z.free_list[k] = NONE THEN {} ELSE Walk(z, z.free_list[k], z.pages_count)

\* the free blocks of a zone: <<first frame, bucket>>
FreeBlocks(z) == {<<g, k>> : g \in 0 .. (z.pages_count - 1), k \in 0 .. MAX_ORDER} \cap
                 UNION {{<<g, k>> : g \in Bucket(z, k)} : k \in 0 .. MAX_ORDER}

Lives == BagToSet(live)

Disjoint(lo1, n1, lo2, n2) == lo1 + n1 <= lo2 \/ lo2 + n2 <= lo1

\* ---------------------------------------------------------------- claims

\* C1: the page ranges of any two live allocations are disjoint (and no
\* address is handed out twice while it is live).
C1_NoOverlap ==
    /\ \A a \in Lives : CopiesIn(a, live) = 1
    /\ \A a, b \in Lives :
        a # b => Disjoint(a.ptr, pow2(a.order) * PAGE_SIZE, b.ptr, pow2(b.order) * PAGE_SIZE)

\* C2: every successful alloc(order, flags) returns a page-aligned address
\* whose whole block lies inside the zone selected by the class bits of flags.
C2_AlignedContained ==
    \A order \in 0 .. MaxAllocOrder, flags \in Flags :
        LET r == alloc(ZONES, order, flags)
            zi == get_suitable_zone(ZONES, BitAndLow(flags, ZONE_TYPE_MASK))
        IN (r.res # ERR /\ ~UB(r.zones)) =>
            /\ r.res % PAGE_SIZE = 0
            /\ r.res >= ZONES[zi].begin
            /\ r.res + pow2(order) * PAGE_SIZE <= ZONES[zi].begin + get_size(ZONES[zi])

\* C3: every frame reachable from bucket k of a zone is marked free, has
\* recorded order k and heads a block inside the zone's pages.
C3_FreeListInvariant ==
    \A i \in DOMAIN ZONES : \A k \in 0 .. MAX_ORDER : \A g \in Bucket(ZONES[i], k) :
        /\ InTable(ZONES[i], g)
        /\ ~is_used(ZONES[i].frames[g])
        /\ ZONES[i].frames[g].order = k
        /\ g + pow2(k) <= ZONES[i].pages_count

\* C4: no page of a live allocation belongs to a block reachable from a
\* free list, and the head frame of a live allocation is linked in no bucket.
C4_LiveNotFree ==
    \A a \in Lives :
        LET zi == get_zone_for_pointer(ZONES, a.ptr)
            id == get_frame_id_from_ptr(ZONES[zi], a.ptr)
        IN /\ zi # NONE
           /\ \A k \in 0 .. MAX_ORDER :
                \A g \in Bucket(ZONES[zi], k) :
                    g # id /\ Disjoint(g, pow2(k), id, pow2(a.order))

\* ---------------------------------------------------------------- call sequences
\* n successive alloc(order, flags): the registry afterwards, the addresses
\* returned in the order of the calls, and whether every call succeeded
RECURSIVE alloc_n(_, _, _, _)
alloc_n(zs, n, order, flags) ==
    IF n = 0 THEN [zones |-> zs, ptrs |-> <<>>, ok |-> TRUE]
    ELSE LET r == alloc(zs, order, flags)
         IN IF r.res = ERR \/ UB(r.zones)
            THEN [zones |-> r.zones, ptrs |-> <<>>, ok |-> FALSE]
            ELSE LET rest == alloc_n(r.zones, n - 1, order, flags)
                 IN [zones |-> rest.zones, ptrs |-> <<r.res>> \o rest.ptrs, ok |-> rest.ok]

\* alloc(0) in the kernel zone until the first failure
RECURSIVE exhaust(_, _)
exhaust(zs, fuel) ==
    LET r == alloc(zs, 0, FLAG_ZONE_TYPE_KERNEL)
    IN IF r.res = ERR \/ UB(r.zones) \/ fuel = 0 THEN [zones |-> r.zones, ptrs |-> <<>>]
       ELSE LET rest == exhaust(r.zones, fuel - 1)
            IN [zones |-> rest.zones, ptrs |-> <<r.res>> \o rest.ptrs]

\* free(ptrs[1], order), free(ptrs[2], order), ...
RECURSIVE free_seq(_, _, _)
free_seq(zs, ptrs, order) ==
    IF ptrs = <<>> \/ UB(zs) THEN zs
    ELSE free_seq(free(zs, Head(ptrs), order), Tail(ptrs), order)

Reverse(q) == [i \in 1 .. Len(q) |-> q[Len(q) + 1 - i]]

\* the orders in which a sequence of addresses can be freed
Orders(q) ==
    {[i \in 1 .. Len(q) |-> q[p[i]]] :
        p \in {f \in [1 .. Len(q) -> 1 .. Len(q)] : \A i, j \in 1 .. Len(q) : i # j => f[i] # f[j]}}

Distinct(q) == \A i, j \in 1 .. Len(q) : i # j => q[i] # q[j]

\* the kernel zone's slot in the registry
KERNEL == 1

\* the pages of a zone that its counter does not count as allocated
FreePages(z) == z.pages_count - z.allocated_pages

\* C5: alloc(k) in the kernel zone returning A, then free(A, k), then
\* alloc(k) again with no call in between: the second alloc returns A.
C5_CoalescingDeterminism ==
    \A k \in 0 .. MaxAllocOrder :
        LET r1 == alloc(ZONES, k, FLAG_ZONE_TYPE_KERNEL)
            zs == free(r1.zones, r1.res, k)
            r2 == alloc(zs, k, FLAG_ZONE_TYPE_KERNEL)
        IN (~UB(ZONES) /\ r1.res # ERR /\ ~UB(r1.zones) /\ ~UB(zs) /\ ~UB(r2.zones))
            => r2.res = r1.res

\* the round trip of N order-0 frames, freed in the order `frees` makes of
\* the addresses: no allocation fails and allocated_pages() is back
RoundTrip(n, frees(_)) ==
    LET a == alloc_n(ZONES, n, 0, FLAG_ZONE_TYPE_KERNEL)
        zs == free_seq(a.zones, frees(a.ptrs), 0)
    IN (~UB(ZONES) /\ n <= FreePages(ZONES[KERNEL]) /\ ~UB(a.zones) /\ ~UB(zs))
        => a.ok /\ allocated_pages(zs) = allocated_pages(ZONES)

Same(q) == q

\* C6: N order-0 frames allocated in a zone with at least N free pages and
\* freed in reverse order: no allocation fails, allocated_pages() is back.
C6_RoundTripLifo == \A n \in 1 .. MaxRoundTrip : RoundTrip(n, Reverse)

\* C7: N order-0 frames allocated in a zone with at least N free pages and
\* freed in the order of allocation: no allocation fails, allocated_pages()
\* is back.
C7_RoundTripFifo == \A n \in 1 .. MaxRoundTrip : RoundTrip(n, Same)

Fresh == calls = 0

\* C8: from a freshly initialised zone, alloc(0) succeeds exactly
\* pages_count times before the first failure, with distinct addresses.
C8_Exhaustion ==
    Fresh =>
        LET e == exhaust(ZONES, ZONES[KERNEL].pages_count + 1)
        IN ~UB(e.zones) => Len(e.ptrs) = ZONES[KERNEL].pages_count /\ Distinct(e.ptrs)

\* C9: after an exhaustion and the free of every frame, in any order, a
\* second exhaustion succeeds pages_count times with distinct addresses.
C9_ReExhaustion ==
    Fresh =>
        LET e == exhaust(ZONES, ZONES[KERNEL].pages_count + 1)
        IN \A q \in Orders(e.ptrs) :
            LET zs == free_seq(e.zones, q, 0)
                e2 == exhaust(zs, ZONES[KERNEL].pages_count + 1)
            IN (~UB(e.zones) /\ ~UB(zs) /\ ~UB(e2.zones)) =>
                /\ Len(e2.ptrs) = Len(e.ptrs)
                /\ Len(e2.ptrs) = ZONES[KERNEL].pages_count
                /\ Distinct(e2.ptrs)

\* the free block of order k headed by f is the one alloc(j) carves
Carvable(z, f, k, j) ==
    /\ j < k
    /\ z.free_list[k] = f
    /\ \A i \in j .. (k - 1) : z.free_list[i] = NONE

\* C10: a free block of order k headed by f, carved into its order-j blocks
\* by alloc(j) calls that are then all freed, in any order, is again the block
\* of order k headed by f in bucket k, with no smaller block of its range free.
C10_SplitCoalesceInverse ==
    \A k \in 0 .. MaxAllocOrder, j \in 0 .. MaxAllocOrder :
        (~UB(ZONES) /\ ZONES[KERNEL].free_list[k] # NONE
            /\ Carvable(ZONES[KERNEL], ZONES[KERNEL].free_list[k], k, j)) =>
            LET f == ZONES[KERNEL].free_list[k]
                a == alloc_n(ZONES, pow2(k - j), j, FLAG_ZONE_TYPE_KERNEL)
            IN \A q \in Orders(a.ptrs) :
                LET zs == free_seq(a.zones, q, j)
                IN (a.ok /\ ~UB(zs)) =>
                    /\ f \in Bucket(zs[KERNEL], k)
                    /\ \A b \in FreeBlocks(zs[KERNEL]) :
                        (b[1] \in f .. (f + pow2(k) - 1)) => b = <<f, k>>

\* ---------------------------------------------------------------- errors
\* the free-list heads, the frame metadata and the counter of a zone
Allocator(z) == <<z.free_list, z.frames, z.allocated_pages>>

\* the zone alloc(order, flags) selects, NONE when there is none
Selected(flags) == get_suitable_zone(ZONES, BitAndLow(flags, ZONE_TYPE_MASK))

\* buckets order .. MAX_ORDER of the zone are all empty
NoBlock(z, order) == \A i \in order .. MAX_ORDER : z.free_list[i] = NONE

\* C11: alloc(order, flags) on an existing zone fails exactly when every
\* bucket order .. MAX_ORDER of the zone is empty, and a failed alloc leaves
\* the free-list heads, the frame metadata and the counter of the zone as
\* they were.
C11_OutOfMemory ==
    \A order \in 0 .. MaxAllocOrder, flags \in Flags :
        LET r == alloc(ZONES, order, flags)
            zi == Selected(flags)
        IN (zi # NONE /\ ~UB(r.zones)) =>
            /\ (r.res = ERR) <=> NoBlock(ZONES[zi], order)
            /\ (r.res = ERR) => Allocator(r.zones[zi]) = Allocator(ZONES[zi])

\* the kernel zone has live allocations, a larger free block only, and is
\* out of memory for the next larger order
C11_Witness ==
    /\ ZONES[KERNEL].allocated_pages > 0
    /\ ~UB(ZONES)
    /\ ZONES[KERNEL].free_list[0] = NONE
    /\ ZONES[KERNEL].free_list[1] # NONE
    /\ alloc(ZONES, 0, FLAG_ZONE_TYPE_KERNEL).res # ERR
    /\ alloc(ZONES, 2, FLAG_ZONE_TYPE_KERNEL).res = ERR
    /\ NoBlock(ZONES[KERNEL], 2)

\* C12: alloc(order, flags) whose class bits match the class tag of no zone
\* fails and leaves every zone's free lists, metadata and counter unchanged.
C12_NoSuitableZone ==
    \A order \in 0 .. MaxAllocOrder, flags \in Flags :
        (\A i \in DOMAIN ZONES : ZONES[i].type_ # BitAndLow(flags, ZONE_TYPE_MASK)) =>
            LET r == alloc(ZONES, order, flags)
            IN /\ r.res = ERR
               /\ \A i \in DOMAIN ZONES : Allocator(r.zones[i]) = Allocator(ZONES[i])

\* a request of class 0b11, which no zone has, fails while the kernel zone
\* has both live allocations and a free block of the order asked for
C12_Witness ==
    /\ \A i \in DOMAIN ZONES : ZONES[i].type_ # 3
    /\ ZONES[KERNEL].allocated_pages > 0
    /\ ZONES[KERNEL].free_list[0] # NONE
    /\ alloc(ZONES, 0, 3 + FLAG_NOFAIL).res = ERR

\* C13 (as claimed): a request for a class with no backing zone, such as
\* DMA, is reported as "no suitable zone", a request that finds no block in
\* its zone as "out of memory", and the two reports are different values.
C13_DistinctErrors ==
    \A order \in 0 .. MaxAllocOrder :
        /\ Selected(FLAG_ZONE_TYPE_DMA) = NONE
        /\ NoBlock(ZONES[KERNEL], order) =>
              alloc(ZONES, order, 3).res # alloc(ZONES, order, FLAG_ZONE_TYPE_KERNEL).res

\* C13 (amended): alloc has one failure value.  A DMA request selects the
\* DMA zone, which has no page, and fails for want of a block; a request
\* of a class no zone has fails with the same value, and so does a kernel
\* request that finds no block.
C13_OneErrorValue ==
    \A order \in 0 .. MaxAllocOrder :
        LET dma == alloc(ZONES, order, FLAG_ZONE_TYPE_DMA)
            nozone == alloc(ZONES, order, 3)
            kernel == alloc(ZONES, order, FLAG_ZONE_TYPE_KERNEL)
        IN /\ Selected(FLAG_ZONE_TYPE_DMA) = 2
           /\ ZONES[2].pages_count = 0
           /\ NoBlock(ZONES[2], order)
           /\ dma.res = ERR
           /\ nozone.res = dma.res
           /\ NoBlock(ZONES[KERNEL], order) => kernel.res = nozone.res

\* the kernel zone is exhausted by live allocations: its request, the DMA
\* request and the request of class 0b11 all fail
C13_Witness ==
    /\ ZONES[KERNEL].pages_count > 1
    /\ ZONES[KERNEL].allocated_pages = ZONES[KERNEL].pages_count
    /\ NoBlock(ZONES[KERNEL], 0)
    /\ alloc(ZONES, 0, FLAG_ZONE_TYPE_KERNEL).res = ERR
    /\ alloc(ZONES, 0, FLAG_ZONE_TYPE_DMA).res = ERR
    /\ alloc(ZONES, 0, 3).res = ERR

\* the page-aligned addresses a caller may pass, those past the end of the
\* largest zone included
Pointers == {p * PAGE_SIZE : p \in 0 .. (MaxBeginPage + MaxPages + 2)}

\* ptr lies in the range [begin, begin + pages_count * PAGE_SIZE) of zone z
InRange(z, ptr) == ptr >= z.begin /\ ptr < z.begin + z.pages_count * PAGE_SIZE

\* C14: free(ptr, order) with ptr inside no zone's range changes no zone's
\* free-list heads, frame metadata or allocated-page counter.
C14_FreeOutsideNoOp ==
    \A ptr \in Pointers, order \in 0 .. MaxAllocOrder :
        (\A i \in DOMAIN ZONES : ~InRange(ZONES[i], ptr)) =>
            LET zs == free(ZONES, ptr, order)
            IN \A i \in DOMAIN ZONES :
                Allocator(zs[i]) = Allocator(ZONES[i]) /\ zs[i].ub = ZONES[i].ub

\* the address right after the kernel zone's last page is freed while the
\* zone has live allocations, and nothing changes
C14_Witness ==
    LET end == ZONES[KERNEL].begin + get_size(ZONES[KERNEL])
    IN /\ ZONES[KERNEL].allocated_pages > 0
       /\ end \in Pointers
       /\ \A i \in DOMAIN ZONES : ~InRange(ZONES[i], end)
       /\ free(ZONES, end, 0) = ZONES
       /\ free(ZONES, 0, 1) = ZONES

\* ---------------------------------------------------------------- counter
\* the sum of 2^order over the allocations of S, each counted as often as
\* it is live
RECURSIVE LivePages(_)
LivePages(S) ==
    IF S = {} THEN 0
    ELSE LET a == CHOOSE x \in S : TRUE
         IN CopiesIn(a, live) * pow2(a.order) + LivePages(S \ {a})

\* C15: between calls, allocated_pages() is the sum of 2^order over all live
\* allocations of all zones.
C15_CounterIsLivePages == allocated_pages(ZONES) = LivePages(Lives)

\* allocations of two different orders are live and at least two frees
\* were made
C15_Witness ==
    /\ ~UB(ZONES)
    /\ \E a, b \in Lives : a.order # b.order
    /\ calls >= BagCardinality(live) + 4
    /\ allocated_pages(ZONES) >= 3

\* ---------------------------------------------------------------- locks
\* the zones whose Mutex caller p holds
Held(p) == {i \in DOMAIN mutex : mutex[i] = p}

\* caller p is inside the critical section of alloc or free
InCritical(p) == thread[p].pc \in {"crit1", "crit2", "crit3", "unlock"}

\* a caller inside a critical section holds the Mutex of its zone, so no
\* two callers are inside the critical section of one zone
MutualExclusion ==
    /\ \A p \in Threads : InCritical(p) => mutex[thread[p].zone] = p
    /\ \A p, q \in Threads :
        (p # q /\ InCritical(p) /\ InCritical(q)) => thread[p].zone # thread[q].zone

\* C16: concurrent alloc and free calls on one zone do their scan, split or
\* coalesce, marking and counter update under the zone's lock, one call at
\* a time, and no two callers hold overlapping blocks.
C16_ConcurrentCallers == MutualExclusion /\ (~UB(ZONES) => C1_NoOverlap)

\* C17: no caller ever holds the locks of two zones at the same time.
C17_OneLockAtATime == \A p \in Threads : Cardinality(Held(p)) <= 1

\* a caller holds the Mutex of the last zone in allocated_pages while the
\* other caller is inside the critical section of the kernel zone
C17_Witness ==
    \E p, q \in Threads :
        /\ thread[p].op = "pages" /\ thread[p].pc = "lookup_held" /\ Held(p) = {2}
        /\ InCritical(q) /\ Held(q) = {KERNEL}

\* caller p is in a call
Busy(p) == thread[p].pc # "idle"

\* a caller about to split runs the loop at most as often as the orders of
\* the block and of the request differ, a caller about to coalesce merges
\* at most as often as the block's order is below MAX_ORDER
StepsBounded ==
    \A p \in Threads :
        LET t == thread[p]
            z == ZONES[t.zone]
        IN (t.pc = "crit2" /\ ~UB(ZONES)) =>
            IF t.op = "alloc"
            THEN /\ z.frames[t.frame].order <= MAX_ORDER
                 /\ split_count(unlink(z, t.frame), t.frame, t.order)
                        <= z.frames[t.frame].order - t.order
            ELSE coalesce_count(z, t.frame) <= MAX_ORDER - z.frames[t.frame].order

\* with the loops of split and coalesce bounded and the free-list checks
\* of a debug build left aside, concurrent callers that all get to run
\* return from every call
CallsReturnWhenFair == []StepsBounded /\ \A p \in Threads : Busy(p) ~> ~Busy(p)

\* C18: every alloc and free call terminates: no call enters a loop that
\* never ends.
C18_CallsTerminate == \A i \in DOMAIN ZONES : ~ZONES[i].hangs

\* both callers are in a call for the kernel zone, one inside the critical
\* section, about to split a block of a larger order, and the other waiting
\* for the Mutex
WaitingForSplit ==
    \E p, q \in Threads :
        /\ thread[p].pc = "crit2" /\ thread[p].op = "alloc"
        /\ ZONES[KERNEL].frames[thread[p].frame].order > thread[p].order
        /\ thread[q].pc = "lock" /\ thread[q].zone = KERNEL
        /\ ~CanRun(q)

\* ---------------------------------------------------------------- initialisation
RECURSIVE SumPages(_)
SumPages(blocks) ==
    IF blocks = {} THEN 0
    ELSE LET b == CHOOSE x \in blocks : TRUE
         IN pow2(b[2]) + SumPages(blocks \ {b})

\* the blocks <<first frame, order>> that the buckets of z list
Listed(z) == UNION {{<<g, k>> : g \in Bucket(z, k)} : k \in 0 .. MAX_ORDER}

\* what C19 says of a zone right after its initialisation
WellFilled(z) ==
    /\ z.allocated_pages = 0
    /\ z.asserts_ok /\ ~z.ub /\ ~z.hangs
    /\ z.pages_count = 0 => \A k \in 0 .. MAX_ORDER : z.free_list[k] = NONE
    /\ SumPages(Listed(z)) = z.pages_count
    /\ \A b \in Listed(z) :
        /\ InTable(z, b[1])
        /\ ~is_used(z.frames[b[1]])
        /\ z.frames[b[1]].order = b[2]
        /\ b[1] % pow2(b[2]) = 0
        /\ b[1] + pow2(b[2]) <= z.pages_count
        /\ b[2] < MAX_ORDER => b[1] + pow2(b[2] + 1) > z.pages_count
    /\ \A b, c \in Listed(z) : b # c => Disjoint(b[1], pow2(b[2]), c[1], pow2(c[2]))
    /\ \A g \in 0 .. (z.pages_count - 1) :
        \E b \in Listed(z) : g \in b[1] .. (b[1] + pow2(b[2]) - 1)

\* metadata memory of n records that holds zeroes
Zeroed(n) == [id \in 0 .. (n - 1) |-> [prev |-> 0, next |-> 0, order |-> 0]]

\* metadata memory of n records that was never written: each record points
\* to itself with the largest order of JunkRecords
Stale(n) == [id \in 0 .. (n - 1) |-> [prev |-> id, next |-> id, order |-> MaxJunkOrder]]

\* C19: after the initialisation of a zone of n pages its free blocks are
\* pairwise disjoint and cover exactly frames 0 .. n-1, each is the largest
\* block that fits in the pages left from its first frame, each starts at a
\* multiple of 2^order, and the counter is 0; with n = 0 every bucket is
\* empty.
C19_InitialFreeLists ==
    Fresh =>
        /\ \A i \in DOMAIN ZONES : WellFilled(ZONES[i])
        /\ \A n \in 0 .. MaxInitPages :
            /\ WellFilled(ZoneInit(FLAG_ZONE_TYPE_KERNEL, 0, n, PAGE_SIZE, Zeroed(n)))
            /\ WellFilled(ZoneInit(FLAG_ZONE_TYPE_KERNEL, 0, n, PAGE_SIZE, Stale(n)))

\* a kernel zone of 3 pages right after init: frames 0-1 are a block of
\* order 1 and frame 2 a block of order 0, while the record of frame 1 was
\* never written
C19_Witness ==
    /\ Fresh
    /\ ZONES[KERNEL].pages_count = 3
    /\ ZONES[KERNEL].free_list[1] = 0
    /\ ZONES[KERNEL].free_list[0] = 2
    /\ ZONES[KERNEL].frames[1] = [prev |-> 1, next |-> 1, order |-> 1]
    /\ ZONES[0].pages_count = 0

\* ---------------------------------------------------------------- layout
\* the table was sized for at least as many records as the zone has pages:
\* the record of every frame of the zone ends inside the table
TableHoldsEveryPage(l) ==
    /\ l.kernel_frames_count <= l.frames_count
    /\ l.kernel_frames_count > 0 =>
        get_frame(l.metadata_begin, l.kernel_frames_count - 1) + FRAME_SIZE
            <= l.metadata_end

\* the pages of the zone start at or after the end of the table
ZoneAfterTable(l) ==
    /\ l.kernel_zone_begin >= kern_to_phys(l.metadata_end)
    /\ l.kernel_zone_begin <= l.kernel_zone_end

\* the memory maps for which the table is too short
ShortTables == {m \in MemoryMaps : ~TableHoldsEveryPage(layout(m))}

\* the zone in the state is the one init lays out for some memory map
LaidOut ==
    \E m \in MemoryMaps :
        /\ ZONES[KERNEL].pages_count = layout(m).kernel_frames_count
        /\ ZONES[KERNEL].begin = layout(m).kernel_zone_begin

\* C20: for every memory map given to init, the metadata table of the
\* kernel zone holds a record for every page of the zone (the page count of
\* the zone never exceeds the frame count the table was sized for), and the
\* pages of the zone start at or after the end of the table.
C20_MetadataTable ==
    Fresh =>
        \A m \in MemoryMaps :
            TableHoldsEveryPage(layout(m)) /\ ZoneAfterTable(layout(m))

\* the half of C20 that the code keeps: the zone never starts inside the
\* table it was sized for
C20_ZoneStartsAfterTable ==
    Fresh => \A m \in MemoryMaps : ZoneAfterTable(layout(m))

\* ---------------------------------------------------------------- flags
\* the zone classes a caller can name with the two class bits
Classes == 0 .. ZONE_TYPE_MASK

\* C21: FLAG_NOFAIL is ignored when the class is not user or the order is
\* above 0: from the same state, alloc(order, class | FLAG_NOFAIL) returns
\* what alloc(order, class) returns and leaves the same registry.
C21_NoFailIgnored ==
    \A order \in 0 .. MaxAllocOrder, class \in Classes :
        (class # FLAG_ZONE_TYPE_USER \/ order > 0) =>
            alloc(ZONES, order, class + FLAG_NOFAIL) = alloc(ZONES, order, class)

\* the kernel zone has live allocations; a request with FLAG_NOFAIL for
\* order 1 succeeds and changes the zone, one for order 2 fails
C21_Witness ==
    /\ ZONES[KERNEL].allocated_pages > 0
    /\ ~UB(ZONES)
    /\ alloc(ZONES, 1, FLAG_ZONE_TYPE_KERNEL + FLAG_NOFAIL).res # ERR
    /\ alloc(ZONES, 1, FLAG_ZONE_TYPE_KERNEL + FLAG_NOFAIL).zones # ZONES
    /\ alloc(ZONES, 2, FLAG_ZONE_TYPE_KERNEL + FLAG_NOFAIL).res = ERR

\* ---------------------------------------------------------------- first fit
\* C22: a successful alloc(order) takes the frame at the head of the lowest
\* non-empty bucket among order .. MAX_ORDER of the selected zone: never a
\* block of a higher bucket while a lower one of index >= order is non-empty,
\* and never a frame that is not the head of its bucket.
C22_FirstFit ==
    \A order \in 0 .. MaxAllocOrder, flags \in Flags :
        LET r == alloc(ZONES, order, flags)
            zi == Selected(flags)
        IN (r.res # ERR /\ ~UB(r.zones)) =>
            \E k \in order .. MAX_ORDER :
                /\ ZONES[zi].free_list[k] = get_frame_id_from_ptr(ZONES[zi], r.res)
                /\ \A i \in order .. (k - 1) : ZONES[zi].free_list[i] = NONE

\* the kernel zone has live allocations, two frames in bucket 0 and a block
\* in bucket 1: alloc(0) takes the head of bucket 0, alloc(1) the head of
\* bucket 1
C22_Witness ==
    /\ ZONES[KERNEL].allocated_pages > 0
    /\ ~UB(ZONES)
    /\ Cardinality(Bucket(ZONES[KERNEL], 0)) >= 2
    /\ ZONES[KERNEL].free_list[1] # NONE
    /\ ZONES[KERNEL].free_list[1] # ZONES[KERNEL].free_list[0]
    /\ alloc(ZONES, 0, FLAG_ZONE_TYPE_KERNEL).res
        = get_ptr(ZONES[KERNEL], ZONES[KERNEL].free_list[0])
    /\ alloc(ZONES, 1, FLAG_ZONE_TYPE_KERNEL).res
        = get_ptr(ZONES[KERNEL], ZONES[KERNEL].free_list[1])

\* ---------------------------------------------------------------- split
\* the bucket alloc(order) takes its frame from: the lowest non-empty one
\* among order .. MAX_ORDER, NONE when they are all empty
Source(z, order) ==
    IF NoBlock(z, order) THEN NONE
    ELSE CHOOSE k \in order .. MAX_ORDER :
            z.free_list[k] # NONE /\ \A i \in order .. (k - 1) : z.free_list[i] = NONE

\* what C23 says of the zone z2 that alloc(order) leaves when it takes
\* frame f from bucket j of zone z
SplitProducts(z, z2, f, j, order) ==
    /\ f \notin Bucket(z2, j)
    /\ \A i \in order .. (j - 1) :
        /\ z2.free_list[i] = Xor1(f, i)
        /\ InTable(z2, Xor1(f, i))
        /\ z2.frames[Xor1(f, i)].order = i
        /\ Bucket(z2, i) = Bucket(z, i) \cup {Xor1(f, i)}
    /\ \A k \in 0 .. MAX_ORDER : f \notin Bucket(z2, k)

\* C23: when alloc(order) takes a block of order j > order headed by frame
\* f, afterwards bucket j has lost f, each bucket i with order <= i < j has
\* exactly one new block, at its head, headed by frame f XOR 2^i with
\* recorded order i, and f is linked in no bucket.
C23_SplitProducts ==
    \A order \in 0 .. MaxAllocOrder :
        LET z == ZONES[KERNEL]
            j == Source(z, order)
            r == alloc(ZONES, order, FLAG_ZONE_TYPE_KERNEL)
        IN (~UB(ZONES) /\ j # NONE /\ j > order /\ ~UB(r.zones)) =>
            SplitProducts(z, r.zones[KERNEL], z.free_list[j], j, order)

\* ---------------------------------------------------------------- live allocations
\* the zone and the head frame of the live allocation a
ZoneOf(a) == get_zone_for_pointer(ZONES, a.ptr)
FrameOf(a) == get_frame_id_from_ptr(ZONES[ZoneOf(a)], a.ptr)

\* C24: on return from a successful alloc(order) the recorded order of the
\* returned frame is the requested order, and it stays so until that frame
\* is freed.
C24_OrderKept ==
    /\ \A order \in 0 .. MaxAllocOrder, flags \in Flags :
        LET r == alloc(ZONES, order, flags)
            zi == Selected(flags)
        IN (~UB(ZONES) /\ r.res # ERR /\ ~UB(r.zones)) =>
            r.zones[zi].frames[get_frame_id_from_ptr(ZONES[zi], r.res)].order = order
    /\ ~UB(ZONES) =>
        \A a \in Lives :
            ZoneOf(a) # NONE /\ ZONES[ZoneOf(a)].frames[FrameOf(a)].order = a.order

\* C25: the head frame of every live allocation is marked used, with both
\* prev and next equal to FRAME_STATE_USED, in every state until it is passed
\* to free: no alloc or free of another block writes to its linkage fields.
C25_LiveStaysUsed ==
    ~UB(ZONES) =>
        \A a \in Lives :
            /\ ZoneOf(a) # NONE
            /\ ZONES[ZoneOf(a)].frames[FrameOf(a)].prev = FRAME_STATE_USED
            /\ ZONES[ZoneOf(a)].frames[FrameOf(a)].next = FRAME_STATE_USED

\* ---------------------------------------------------------------- coalesce
\* frame g heads a block of one of the allocations L, or lies inside one
InLive(L, zi, g) ==
    \E a \in L :
        /\ ZoneOf(a) = zi
        /\ g \in FrameOf(a) .. (FrameOf(a) + pow2(a.order) - 1)

\* a block of order k may be merged with the buddy frame b: b is in the
\* table, is a free block of order k linked in bucket k, and is no page of
\* an allocation of L
Mergeable(L, zi, z, b, k) ==
    /\ InTable(z, b)
    /\ ~is_used(z.frames[b])
    /\ z.frames[b].order = k
    /\ b \in Bucket(z, k)
    /\ ~InLive(L, zi, b)

\* C26: free merges the freed block with its buddy (id XOR 2^order) only
\* when the buddy id is below pages_count and the buddy is a free block of
\* the same order that is linked in that order's bucket; if the buddy is out
\* of range, allocated, part of an allocated block or of another order,
\* coalescing stops, and the block is linked into the bucket of its order.
C26_CoalesceConditions ==
    ~UB(ZONES) =>
        \A a \in Lives :
            LET zi == ZoneOf(a)
                id == FrameOf(a)
                ms == merges(mark_free(ZONES[zi], id), id)
                zs == free(ZONES, a.ptr, a.order)
            IN ~UB(zs) =>
                /\ \A n \in 1 .. Len(ms) :
                    Mergeable(Lives \ {a}, zi, ms[n].zone, ms[n].buddy,
                              ms[n].zone.frames[id].order)
                /\ zs[zi].free_list[zs[zi].frames[id].order] = id

\* ---------------------------------------------------------------- linking
\* frame f of zone z is free and in no bucket
Unlinked(z, f) ==
    /\ InTable(z, f)
    /\ ~is_used(z.frames[f])
    /\ z.frames[f].order <= MAX_ORDER
    /\ \A j \in 0 .. MAX_ORDER : f \notin Bucket(z, j)

\* what C27 says of the zone z2 that link(f) makes of z
LinkEffect(z, z2, f) ==
    LET k == z.frames[f].order
        h == z.free_list[k]
    IN /\ z2.free_list[k] = f
       /\ z2.frames[f] = [prev |-> f, next |-> IF h = NONE THEN f ELSE h, order |-> k]
       /\ h # NONE => z2.frames[h] = [z.frames[h] EXCEPT !.prev = f]
       /\ \A j \in 0 .. MAX_ORDER : j # k => z2.free_list[j] = z.free_list[j]
       /\ \A g \in 0 .. (z.pages_count - 1) : g \notin {f, h} => z2.frames[g] = z.frames[g]
       /\ z2.allocated_pages = z.allocated_pages
       /\ get_available_frame(z2, k) = f

\* C27: link(f) on a free frame f of order k that is in no bucket makes f
\* the head of bucket k with f.prev = f and f.next = the former head (f when
\* the bucket was empty), sets the former head's prev to f, and leaves every
\* other bucket head and every other frame's fields as they were; f is the
\* frame alloc takes next from that bucket.
C27_LinkEffect ==
    ~UB(ZONES) =>
        \A i \in DOMAIN ZONES : \A f \in 0 .. (ZONES[i].pages_count - 1) :
            (Unlinked(ZONES[i], f) /\ ~link(ZONES[i], f).ub) =>
                LinkEffect(ZONES[i], link(ZONES[i], f), f)

\* the kernel zone has live allocations and a free frame of order 0 in no
\* bucket while bucket 0 is not empty: link puts the frame before the
\* former head
C27_Witness ==
    /\ ZONES[KERNEL].allocated_pages > 0
    /\ ZONES[KERNEL].asserts_ok
    /\ ~UB(ZONES)
    /\ \E f \in 0 .. (ZONES[KERNEL].pages_count - 1) :
        /\ Unlinked(ZONES[KERNEL], f)
        /\ ZONES[KERNEL].frames[f].order = 0
        /\ ZONES[KERNEL].free_list[0] # NONE
        /\ link(ZONES[KERNEL], f).frames[f].next = ZONES[KERNEL].free_list[0]
        /\ link(ZONES[KERNEL], f).free_list[0] = f

\* the frames of a list in the order following `next` visits them
RECURSIVE Chain(_, _, _)
Chain(z, frame, fuel) ==
    IF ~InTable(z, frame) THEN <<frame>>
    ELSE IF z.frames[frame].next = frame \/ fuel = 0 THEN <<frame>>
    ELSE <<frame>> \o Chain(z, z.frames[frame].next, fuel - 1)

\* the list of bucket k, from its head
List(z, k) == IF z.free_list[k] = NONE THEN <<>> ELSE Chain(z, z.free_list[k], z.pages_count)

\* the list of bucket k is finite and consistent: no frame twice, the last
\* frame's next and the head's prev are their own ids, and each frame's prev
\* is the frame before it
WellFormed(z, k) ==
    LET q == List(z, k)
    IN q # <<>> =>
        /\ \A n \in 1 .. Len(q) : InTable(z, q[n])
        /\ Distinct(q)
        /\ z.frames[q[Len(q)]].next = q[Len(q)]
        /\ z.frames[q[1]].prev = q[1]
        /\ \A n \in 1 .. (Len(q) - 1) : z.frames[q[n + 1]].prev = q[n]

\* the sequence q without the frame f
Without(q, f) == SelectSeq(q, LAMBDA x : x # f)

\* frame f is linked in bucket k of z: the list of bucket k is well formed,
\* f is one of its frames and records order k, and no other bucket lists f
LinkedIn(z, f, k) ==
    /\ WellFormed(z, k)
    /\ f \in Bucket(z, k)
    /\ z.frames[f].order = k
    /\ \A j \in 0 .. MAX_ORDER : j # k => f \notin Bucket(z, j)

\* what C28 says of the zone z2 that unlink(f) makes of z, f in bucket k
UnlinkEffect(z, z2, f, k) ==
    /\ List(z2, k) = Without(List(z, k), f)
    /\ WellFormed(z2, k)
    /\ \A j \in 0 .. MAX_ORDER : j # k => z2.free_list[j] = z.free_list[j] /\ List(z2, j) = List(z, j)

\* C28: unlink(f) on a frame f linked at any place (head, middle, last,
\* sole) of bucket k removes exactly f: the frames left keep their order, the
\* new first frame's prev and the new last frame's next are their own ids, the
\* bucket head follows when f was the head and the bucket is empty when f was
\* alone, and every other bucket is unchanged.
C28_UnlinkEffect ==
    ~UB(ZONES) =>
        \A i \in DOMAIN ZONES : \A k \in 0 .. MAX_ORDER :
            \A n \in 1 .. Len(List(ZONES[i], k)) :
                (LinkedIn(ZONES[i], List(ZONES[i], k)[n], k)
                    /\ ~unlink(ZONES[i], List(ZONES[i], k)[n]).ub) =>
                    UnlinkEffect(ZONES[i], unlink(ZONES[i], List(ZONES[i], k)[n]),
                                 List(ZONES[i], k)[n], k)

\* bucket 0 of the kernel zone lists at least three frames and bucket 1
\* is not empty: unlink of the second frame leaves the first and the third,
\* unlink of the head leaves the second as head
C28_Witness ==
    /\ Len(List(ZONES[KERNEL], 0)) >= 3
    /\ ZONES[KERNEL].free_list[1] # NONE
    /\ \A n \in 1 .. 3 : LinkedIn(ZONES[KERNEL], List(ZONES[KERNEL], 0)[n], 0)
    /\ List(unlink(ZONES[KERNEL], List(ZONES[KERNEL], 0)[2]), 0)
        = Without(List(ZONES[KERNEL], 0), List(ZONES[KERNEL], 0)[2])
    /\ unlink(ZONES[KERNEL], List(ZONES[KERNEL], 0)[1]).free_list[0]
        = List(ZONES[KERNEL], 0)[2]

\* C29: in every reachable state each bucket's list is finite and
\* consistent: following next from the head visits each frame at most once
\* and ends at a frame whose next is its own id, the head's prev is its own
\* id, each frame's prev is the frame before it, and no frame is linked in
\* two buckets.
C29_ListsWellFormed ==
    ~UB(ZONES) =>
        \A i \in DOMAIN ZONES :
            /\ \A k \in 0 .. MAX_ORDER : WellFormed(ZONES[i], k)
            /\ \A j, k \in 0 .. MAX_ORDER :
                j # k => Bucket(ZONES[i], j) \cap Bucket(ZONES[i], k) = {}

\* ---------------------------------------------------------------- assertions
\* C30: no debug assertion of the allocator fails in a state reachable under
\* the caller contract: check_free_list holds before and after every link
\* and unlink, every frame passed to link, unlink, split or coalesce is not
\* marked used, the buddy found during split is not marked used, split is
\* called with a frame order >= the requested order, and the frame id that
\* free computes is below pages_count.
C30_NoAssertionFails ==
    ~UB(ZONES) => \A i \in DOMAIN ZONES : ZONES[i].asserts_ok \/ ZONES[i].hangs

\* ---------------------------------------------------------------- zone identity
\* the class tag, the begin address, the page count and the address of the
\* metadata table of a zone
Identity(z) == <<z.type_, z.begin, z.pages_count, z.metadata_begin>>

\* C31: after init no step of alloc, free, allocated_pages or a zone lookup
\* changes the class tag, begin address, page count or metadata-table address
\* of any zone; what changes is the free-list heads, the frame records and the
\* counter of the one zone the caller operates on, whose lock it holds.
C31_ZoneIdentityFixed ==
    [][/\ \A i \in DOMAIN ZONES : Identity(ZONES'[i]) = Identity(ZONES[i])
       /\ \A i \in DOMAIN ZONES :
            Allocator(ZONES'[i]) # Allocator(ZONES[i]) =>
                \E p \in Threads :
                    /\ thread[p].zone = i
                    /\ mutex[i] = p
                    /\ thread[p].op \in {"alloc", "free"}
                    /\ \A j \in DOMAIN ZONES : j # i => ZONES'[j] = ZONES[j]]_vars

\* a caller has made all its calls, allocations are live in the kernel
\* zone, and the zones still have the classes init gave them
C31_Witness ==
    /\ \E p \in Threads : thread[p].pc = "idle" /\ thread[p].made = MaxThreadCalls
    /\ ~UB(ZONES)
    /\ ZONES[KERNEL].allocated_pages > 0
    /\ live # EmptyBag
    /\ ZONES[KERNEL].type_ = FLAG_ZONE_TYPE_KERNEL
    /\ ZONES[KERNEL].begin = PAGE_SIZE
    /\ ZONES[0].pages_count = 0 /\ ZONES[2].pages_count = 0

\* ---------------------------------------------------------------- buddies
\* C32: in every reachable state every block on bucket k is headed by a
\* frame whose id is a multiple of 2^k: when free merges a block with its
\* buddy, the block of order k+1 is headed by the lower of the two frames.
C32_BuddyAlignment ==
    ~UB(ZONES) =>
        \A i \in DOMAIN ZONES : \A k \in 0 .. MAX_ORDER :
            \A g \in Bucket(ZONES[i], k) : g % pow2(k) = 0

\* C33: in every reachable state, for every order k < MAX_ORDER, no free
\* block of order k has its buddy (id XOR 2^k, when below pages_count) on the
\* free list as a block of order k as well.
C33_MaximalCoalescing ==
    ~UB(ZONES) =>
        \A i \in DOMAIN ZONES : \A k \in 0 .. (MAX_ORDER - 1) :
            \A g \in Bucket(ZONES[i], k) :
                ~(Xor1(g, k) < ZONES[i].pages_count /\ Xor1(g, k) \in Bucket(ZONES[i], k))

\* ---------------------------------------------------------------- conservation
\* C34: in every reachable state of a zone the allocated-page counter plus
\* the sum of 2^order over the blocks on the zone's free lists equals
\* pages_count: no page is lost from the free lists or counted twice.
C34_PageConservation ==
    ~UB(ZONES) =>
        \A i \in DOMAIN ZONES :
            ZONES[i].allocated_pages + SumPages(Listed(ZONES[i])) = ZONES[i].pages_count

\* ---------------------------------------------------------------- reclaim
\* the blocks <<head frame, order>> that fill_free_list gives a zone of the
\* page count of z
InitialBlocks(z) == Listed(ZoneInit(z.type_, z.metadata_begin, z.pages_count, z.begin,
                                    Zeroed(z.pages_count)))

\* C35: after any sequence of alloc and free calls, whenever no allocation
\* is live, every bucket of the zone holds the blocks (head frames and orders)
\* it held right after initialisation, and the allocated-page counter is 0.
C35_FullReclaim ==
    (~UB(ZONES) /\ live = EmptyBag) =>
        \A i \in DOMAIN ZONES :
            /\ Listed(ZONES[i]) = InitialBlocks(ZONES[i])
            /\ ZONES[i].allocated_pages = 0

\* ---------------------------------------------------------------- frame effect of alloc
\* bucket k of z2 has the head it has in z, and the frames linked in it
\* have the links they have in z
BucketKept(z, z2, k) ==
    /\ z2.free_list[k] = z.free_list[k]
    /\ \A g \in Bucket(z, k) :
        InTable(z, g) =>
            /\ z2.frames[g].prev = z.frames[g].prev
            /\ z2.frames[g].next = z.frames[g].next

\* C36: a successful alloc(order) that takes a block of order j changes
\* only buckets order .. j: the heads of the buckets below order and above j
\* and the linkage fields of every frame linked in them are unchanged,
\* whatever the records of never-linked or unlinked frames hold.
C36_AllocFrameEffect ==
    \A order \in 0 .. MaxAllocOrder :
        LET z == ZONES[KERNEL]
            j == Source(z, order)
            r == alloc(ZONES, order, FLAG_ZONE_TYPE_KERNEL)
        IN (~UB(ZONES) /\ j # NONE /\ ~UB(r.zones)) =>
            \A k \in (0 .. MAX_ORDER) \ (order .. j) : BucketKept(z, r.zones[KERNEL], k)

\* ---------------------------------------------------------------- zone classes
\* C37: init gives the user and DMA zones no pages, so every alloc whose
\* class bits are FLAG_ZONE_TYPE_USER or FLAG_ZONE_TYPE_DMA fails for every
\* order and changes nothing, every address alloc returns lies in the kernel
\* zone, and the kernel zone is the only zone get_zone_for_pointer returns.
C37_KernelZoneOnly ==
    /\ \A order \in 0 .. MaxAllocOrder, flags \in Flags :
        LET r == alloc(ZONES, order, flags)
        IN /\ BitAndLow(flags, ZONE_TYPE_MASK) \in {FLAG_ZONE_TYPE_USER, FLAG_ZONE_TYPE_DMA} =>
                r.res = ERR /\ r.zones = ZONES
           /\ (r.res # ERR /\ ~UB(r.zones)) => InRange(ZONES[KERNEL], r.res)
    /\ \A a \in Lives : InRange(ZONES[KERNEL], a.ptr)
    /\ \A ptr \in Pointers : get_zone_for_pointer(ZONES, ptr) \in {NONE, KERNEL}

\* the kernel zone has live allocations and free blocks: a request for
\* order 0 succeeds in the kernel class and fails in the user and DMA
\* classes, and the address of a live allocation is looked up in the kernel
\* zone
C37_Witness ==
    /\ ~UB(ZONES)
    /\ ZONES[KERNEL].allocated_pages > 0
    /\ alloc(ZONES, 0, FLAG_ZONE_TYPE_KERNEL).res # ERR
    /\ alloc(ZONES, 0, FLAG_ZONE_TYPE_USER).res = ERR
    /\ alloc(ZONES, 0, FLAG_ZONE_TYPE_DMA).res = ERR
    /\ \E a \in Lives : get_zone_for_pointer(ZONES, a.ptr) = KERNEL

\* ---------------------------------------------------------------- the debug scan
\* the frames of z that are in its table and in some bucket
InBuckets(z) == {b[1] : b \in FreeBlocks(z)}

\* the heads of the buckets of z that are in its table
Heads(z) == {z.free_list[k] : k \in {o \in 0 .. MAX_ORDER : z.free_list[o] # NONE}}
            \cap (0 .. (z.pages_count - 1))

\* zone states next to z: z, and z with one field of one listed frame
\* overwritten: its order, a used mark in prev or in next, the prev of a head
Tampered(z) ==
    {z}
    \cup {[z EXCEPT !.frames[g].order = o] : g \in InBuckets(z), o \in 0 .. (MAX_ORDER + 1)}
    \cup {[z EXCEPT !.frames[g].prev = FRAME_STATE_USED] : g \in InBuckets(z)}
    \cup {[z EXCEPT !.frames[g].next = FRAME_STATE_USED] : g \in InBuckets(z)}
    \cup {[z EXCEPT !.frames[h].prev = p] : h \in Heads(z), p \in 0 .. (z.pages_count - 1)}

\* some bucket of z contains a frame marked used
HasUsed(z) ==
    \E k \in 0 .. MAX_ORDER : \E g \in Bucket(z, k) : InTable(z, g) /\ is_used(z.frames[g])

\* some bucket of z contains a frame whose recorded order is not the index
\* of the bucket
WrongOrder(z) ==
    \E k \in 0 .. MAX_ORDER : \E g \in Bucket(z, k) : InTable(z, g) /\ z.frames[g].order # k

\* some bucket of z contains a frame whose recorded order is above MAX_ORDER
TooLarge(z) ==
    \E k \in 0 .. MAX_ORDER : \E g \in Bucket(z, k) :
        InTable(z, g) /\ z.frames[g].order > MAX_ORDER

\* the prev of the head of some bucket of z is not the head's own id
DanglingHead(z) == \E h \in Heads(z) : z.frames[h].prev # h

\* the free-list invariant: every list is well formed and its frames are in
\* the table, free and of the order of the bucket
FreeListInvariant(z) ==
    \A k \in 0 .. MAX_ORDER :
        /\ WellFormed(z, k)
        /\ \A g \in Bucket(z, k) :
            InTable(z, g) /\ ~is_used(z.frames[g]) /\ z.frames[g].order = k

\* C38 as stated: check_free_list returns false for every zone state in
\* which some bucket contains a frame marked used, a frame whose recorded
\* order differs from the index of its bucket, or a head whose prev is not
\* its own id, and returns true for every state that satisfies the free-list
\* invariant.
C38_ScanDetects ==
    \A i \in DOMAIN ZONES : \A z \in Tampered(ZONES[i]) :
        /\ (HasUsed(z) \/ WrongOrder(z) \/ DanglingHead(z)) => check_outcome(z) = "false"
        /\ FreeListInvariant(z) => check_outcome(z) = "true"

\* C38 as the code has it: check_free_list never returns true for a zone
\* state in which some bucket contains a frame marked used, a frame whose
\* recorded order is above MAX_ORDER, or a head whose prev is not its own id;
\* it returns true for every state that satisfies the free-list invariant;
\* and it does not compare a recorded order with the index of the bucket:
\* overwriting the order of a listed frame with any order up to MAX_ORDER
\* leaves its outcome as it was.
C38_ScanAsCoded ==
    \A i \in DOMAIN ZONES :
        /\ \A z \in Tampered(ZONES[i]) :
            /\ (HasUsed(z) \/ TooLarge(z) \/ DanglingHead(z)) => ~check_free_list(z)
            /\ FreeListInvariant(z) => check_outcome(z) = "true"
        /\ \A g \in InBuckets(ZONES[i]), o \in 0 .. MAX_ORDER :
            check_outcome([ZONES[i] EXCEPT !.frames[g].order = o]) = check_outcome(ZONES[i])

\* the kernel zone has live allocations and two non-empty buckets, and
\* passes the scan; it fails the scan once the prev of a head names another
\* frame, once a listed frame is marked used and once a listed order is
\* MAX_ORDER + 1, and still passes it with a listed order that is not the
\* index of the bucket
C38_Witness ==
    /\ ZONES[KERNEL].allocated_pages > 0
    /\ ZONES[KERNEL].asserts_ok
    /\ FreeListInvariant(ZONES[KERNEL])
    /\ ZONES[KERNEL].free_list[0] # NONE /\ ZONES[KERNEL].free_list[1] # NONE
    /\ check_outcome(ZONES[KERNEL]) = "true"
    /\ \E h \in Heads(ZONES[KERNEL]), p \in 0 .. (ZONES[KERNEL].pages_count - 1) :
        p # h /\ check_outcome([ZONES[KERNEL] EXCEPT !.frames[h].prev = p]) = "false"
    /\ \E g \in InBuckets(ZONES[KERNEL]) :
        /\ check_outcome([ZONES[KERNEL] EXCEPT !.frames[g].next = FRAME_STATE_USED]) = "false"
        /\ check_outcome([ZONES[KERNEL] EXCEPT !.frames[g].order = MAX_ORDER + 1]) = "false"
        /\ WrongOrder([ZONES[KERNEL] EXCEPT !.frames[g].order = MAX_ORDER])
        /\ check_outcome([ZONES[KERNEL] EXCEPT !.frames[g].order = MAX_ORDER]) = "true"

====
